---- MODULE Spec2Model ----
(***************************************************************************)
(* Credential lifecycle of google_calendar_mcp: the file token store       *)
(* (auth/token_store.py) at system-call granularity and get_credentials    *)
(* (auth/oauth.py) on top of it, run by concurrent callers; the entry      *)
(* points main and auth_main (server.py); the event tools                  *)
(* (tools/events.py) over the calendar functions (calendar/events.py).     *)
(***************************************************************************)
EXTENDS Integers, Sequences, FiniteSets, TLC

(* ------------------------------ bounds -------------------------------- *)

\* operations each caller starts in one run
MaxCalls == 2
\* operating-system errors the environment injects in one run
MaxFaults == 1
\* cells the buffered writer hands to one write(2)
BufSize == 8

Procs == {1, 2}

(* ------------------------------ values -------------------------------- *)

\* JSON values of a token record: null, a string, a list of strings.
\* A string is a sequence of characters.
None == [t |-> "null", s |-> <<>>]
Str(chars) == [t |-> "str", s |-> <<chars>>]
List(strs) == [t |-> "list", s |-> strs]

\* A dict is the sequence of its items, in insertion order.
Item(k, v) == [k |-> k, v |-> v]
Keys == {"token", "refresh_token", "token_uri", "client_id", "scopes"}
HasKey(d, k) == \E i \in 1..Len(d) : d[i].k = k
Get(d, k) == IF HasKey(d, k) THEN d[CHOOSE i \in 1..Len(d) : d[i].k = k].v ELSE None
Put(d, k, v) ==
    IF HasKey(d, k)
    THEN [i \in 1..Len(d) |-> IF d[i].k = k THEN Item(k, v) ELSE d[i]]
    ELSE Append(d, Item(k, v))

\* load's result when there is nothing to return (Python's None)
Absent == <<Item("None", None)>>
Truthy(data) == data # Absent /\ Len(data) > 0

(* ------------------------------- JSON --------------------------------- *)

\* The text json.dump writes, as a sequence of cells: one cell per brace,
\* bracket, quote, key, null and string character.
Quoted(chars) == <<"\"">> \o chars \o <<"\"">>

RECURSIVE DumpStrs(_)
DumpStrs(strs) ==
    IF strs = <<>> THEN <<>> ELSE Quoted(Head(strs)) \o DumpStrs(Tail(strs))

DumpValue(v) ==
    IF v.t = "null" THEN <<"null">>
    ELSE IF v.t = "str" THEN Quoted(v.s[1])
    ELSE <<"[">> \o DumpStrs(v.s) \o <<"]">>

RECURSIVE DumpItems(_)
DumpItems(d) ==
    IF d = <<>> THEN <<>>
    ELSE <<Head(d).k>> \o DumpValue(Head(d).v) \o DumpItems(Tail(d))

json_dump(d) == <<"{">> \o DumpItems(d) \o <<"}">>

\* json.load: a recursive-descent parse of the cells; anything else than one
\* complete object is a JSONDecodeError.
Structural == {"{", "}", "[", "]", "\"", "null", "NUL"} \cup Keys
Fail == [ok |-> FALSE, val |-> None, next |-> 0]

RECURSIVE ParseChars(_, _, _)
ParseChars(cs, i, acc) ==
    IF i > Len(cs) THEN Fail
    ELSE IF cs[i] = "\"" THEN [ok |-> TRUE, val |-> Str(acc), next |-> i + 1]
    ELSE IF cs[i] \in Structural THEN Fail
    ELSE ParseChars(cs, i + 1, Append(acc, cs[i]))

ParseString(cs, i) ==
    IF i > Len(cs) \/ cs[i] # "\"" THEN Fail ELSE ParseChars(cs, i + 1, <<>>)

RECURSIVE ParseList(_, _, _)
ParseList(cs, i, acc) ==
    IF i > Len(cs) THEN Fail
    ELSE IF cs[i] = "]" THEN [ok |-> TRUE, val |-> List(acc), next |-> i + 1]
    ELSE LET e == ParseString(cs, i)
         IN  IF e.ok THEN ParseList(cs, e.next, Append(acc, e.val.s[1])) ELSE Fail

ParseValue(cs, i) ==
    IF i > Len(cs) THEN Fail
    ELSE IF cs[i] = "null" THEN [ok |-> TRUE, val |-> None, next |-> i + 1]
    ELSE IF cs[i] = "\"" THEN ParseString(cs, i)
    ELSE IF cs[i] = "[" THEN ParseList(cs, i + 1, <<>>)
    ELSE Fail

RECURSIVE ParseItems(_, _, _)
ParseItems(cs, i, acc) ==
    IF i > Len(cs) THEN [ok |-> FALSE, d |-> <<>>, next |-> 0]
    ELSE IF cs[i] = "}" THEN [ok |-> TRUE, d |-> acc, next |-> i + 1]
    ELSE IF cs[i] \notin Keys THEN [ok |-> FALSE, d |-> <<>>, next |-> 0]
    ELSE LET v == ParseValue(cs, i + 1)
         IN  IF v.ok THEN ParseItems(cs, v.next, Put(acc, cs[i], v.val))
             ELSE [ok |-> FALSE, d |-> <<>>, next |-> 0]

\* [ok, d]: ok = FALSE is a JSONDecodeError
json_load(cs) ==
    IF Len(cs) = 0 \/ cs[1] # "{" THEN [ok |-> FALSE, d |-> <<>>]
    ELSE LET r == ParseItems(cs, 2, <<>>)
         IN  IF r.ok /\ r.next = Len(cs) + 1 THEN [ok |-> TRUE, d |-> r.d]
             ELSE [ok |-> FALSE, d |-> <<>>]

(* ------------------------- user ids and paths -------------------------- *)

\* str.isalnum() over the characters the model draws user ids from
AlnumChars == {"a", "b"}
IsSafeChar(c) == c \in AlnumChars \/ c \in {"-", "_"}
\* (a user id used as it comes)
SafeId_Raw(user_id) == user_id
\* _token_path, line 46: the characters that are alphanumeric, "-" or "_"
SafeId(user_id) == SelectSeq(user_id, IsSafeChar)

\* store_dir / name, as the operating system resolves it: "/" separates the
\* components, "." stays, ".." leaves the directory
Enter(dirs, seg) ==
    IF seg = <<>> \/ seg = <<".">> THEN dirs
    ELSE IF seg = <<".", ".">>
    THEN (IF dirs = <<>> THEN dirs ELSE SubSeq(dirs, 1, Len(dirs) - 1))
    ELSE Append(dirs, seg)

RECURSIVE Walk(_, _, _)
Walk(cells, dirs, seg) ==
    IF cells = <<>> THEN [dirs |-> dirs, name |-> seg]
    ELSE IF Head(cells) = "/" THEN Walk(Tail(cells), Enter(dirs, seg), <<>>)
    ELSE Walk(Tail(cells), dirs, Append(seg, Head(cells)))

PathJoin(name) ==
    LET w == Walk(name, <<<<"store_dir">>>>, <<>>)
    IN  [parent |-> IF w.dirs = <<<<"store_dir">>>> THEN "store_dir" ELSE "outside",
         name |-> w.name]

\* _token_path(user_id) of a user id whose safe id is not empty, line 49
TokenPath(user_id) == PathJoin(SafeId(user_id) \o <<".token", ".json">>)

\* Path.with_suffix: the last suffix of the name is replaced
WithSuffix(path, suffix) ==
    [path EXCEPT !.name = SubSeq(@, 1, Len(@) - 1) \o <<suffix>>]
\* (a save that writes the record file in place)
TmpPath_InPlace(path) == path
\* save, line 69: tmp = path.with_suffix(".tmp")
TmpPath(path) == WithSuffix(path, ".tmp")

UserIds == {<<"a">>, <<".", "/">>}
\* user ids of several users, one of them with "..", "/" and a null byte
ManyIds == {<<"a">>, <<"b">>, <<".", ".", "/", "a", "NUL">>}
ValidIds == {u \in UserIds \cup ManyIds : SafeId(u) # <<>>}
AllPaths == {TokenPath(u) : u \in ValidIds} \cup {TmpPath(TokenPath(u)) : u \in ValidIds}
NoPath == [parent |-> "", name |-> <<>>]

(* ---------------------------- file system ------------------------------ *)

\* every inode is named by a path or held open by a caller
NumInodes == Cardinality(AllPaths) + Cardinality(Procs)
Inodes == 1..NumInodes
NoInode == [content |-> <<>>, mode |-> <<0, 0, 0>>]

\* permission bits as octal digits; a file is created 0666 & ~umask
Umask == <<0, 2, 2>>
Clear(digit, mask) ==
    digit - ((IF mask \in {4, 5, 6, 7} /\ digit \in {4, 5, 6, 7} THEN 4 ELSE 0)
           + (IF mask \in {2, 3, 6, 7} /\ digit \in {2, 3, 6, 7} THEN 2 ELSE 0))
CreateMode == <<Clear(6, Umask[1]), Clear(6, Umask[2]), Clear(6, Umask[3])>>
OwnerOnly == <<6, 0, 0>>

\* a write of chunk at offset off; a gap past the end reads as NUL
Overlay(content, off, chunk) ==
    LET end == off + Len(chunk)
        n == IF Len(content) > end THEN Len(content) ELSE end
    IN  [i \in 1..n |->
            IF i > off /\ i <= end THEN chunk[i - off]
            ELSE IF i <= Len(content) THEN content[i]
            ELSE "NUL"]

(* ------------------------------ callers -------------------------------- *)

NoCreds ==
    [some |-> FALSE, token |-> None, refresh_token |-> None, token_uri |-> None,
     client_id |-> None, client_secret |-> None, scopes |-> None,
     valid |-> FALSE, expired |-> FALSE]
NoOut == [kind |-> "none", exc |-> "", val |-> Absent, creds |-> NoCreds]

\* what a load remembers of the caller's previous operation
NoPrev == [op |-> "none", user_id |-> <<>>, trace |-> <<>>, kind |-> "none",
           issued |-> None]

\* Python's None or a string, for the optional arguments of the calendar
\* functions
NoneOpt == [some |-> FALSE, v |-> <<>>]
Some(v) == [some |-> TRUE, v |-> v]

\* the defaults of the tools' parameters (tools/events.py lines 69-74,
\* 105-110, 161-171, 226-236)
ToolDefaults ==
    [calendar_id |-> <<"primary">>, time_min |-> <<>>, time_max |-> <<>>,
     max_results |-> 10, order_by |-> <<"startTime">>, query |-> <<>>,
     summary |-> <<>>, start |-> <<>>, end |-> <<>>, event_id |-> <<>>,
     description |-> <<>>, location |-> <<>>, attendees |-> <<>>,
     all_day |-> FALSE, color_id |-> <<>>, reminders |-> <<>>]

\* no response yet; no request sent; no error of the API
NoResp == [kind |-> "none", msg |-> <<>>, count |-> 0]
NoRequest == [method |-> "none"]
NoHttpError == [status |-> "", detail |-> <<>>]
\* a tool call: its arguments, the calls of get_client, the request sent
\* to the calendar API, the HttpError the API answered, the tool's response
NoTool ==
    [args |-> ToolDefaults, clients |-> 0, api |-> NoRequest, exc |-> NoHttpError,
     resp |-> NoResp]

\* the environment variables of a process not started from an entry point
NoEnv == [client_id |-> <<>>, client_secret |-> <<>>]

Idle ==
    [pc |-> "idle", op |-> "none", caller |-> "top", user_id |-> <<>>,
     data |-> Absent, headless |-> FALSE, path |-> NoPath, fd |-> 0, off |-> 0,
     lk |-> "none", ret |-> Absent, creds |-> NoCreds, out |-> NoOut,
     calls |-> 0, flt |-> FALSE, solo |-> FALSE, dirty |-> FALSE, seen |-> {},
     trace |-> <<>>, issued |-> None, prev |-> NoPrev,
     entry |-> "none", env |-> NoEnv, stage |-> "none", status |-> -1,
     stderr |-> <<>>, stale |-> FALSE, tool |-> NoTool]

VARIABLES
    fs,       \* the storage directory: [dir, names, inodes]
    proc,     \* each caller's position and locals
    faults,   \* operating-system errors still to be injected
    hist      \* what has been saved and deleted so far, per record path
              \* (committed, deleted, saved) and per user id (own)

vars == <<fs, proc, faults, hist>>

RecPaths == {TokenPath(u) : u \in ValidIds}
InCall(pr) == pr.pc \notin {"idle", "done"}

\* the inodes still named or held open; the others are freed
Referenced(names, procs) ==
    {names[x] : x \in AllPaths} \cup {procs[q].fd : q \in Procs}
Collect(nfs, procs) ==
    [nfs EXCEPT !.inodes =
        [i \in Inodes |-> IF i \in Referenced(nfs.names, procs) THEN @[i] ELSE NoInode]]
FreeInode(f) ==
    CHOOSE i \in Inodes :
        /\ i \notin Referenced(f.names, proc)
        /\ \A j \in Inodes : j \notin Referenced(f.names, proc) => i <= j

Exists(f, path) == f.dir /\ path \in AllPaths /\ f.names[path] # 0

\* what the record path holds changes: a record is installed or unlinked
NoEvent == [kind |-> "none", path |-> NoPath, val |-> Absent]
Installed(path, d) == [kind |-> "install", path |-> path, val |-> d]
Unlinked(path) == [kind |-> "unlink", path |-> path, val |-> Absent]
Saving(user_id, d) ==
    IF SafeId(user_id) = <<>> THEN [kind |-> "none", path |-> NoPath, val |-> Absent]
    ELSE [kind |-> "saving", path |-> TokenPath(user_id), val |-> d]

\* One step of caller p: its record becomes np, the file system nfs. The
\* history records what the step installed or removed, and whether the
\* caller's operation has changed the file system or overlapped another's.
Commit(p, np, nfs, fault, ev, starting) ==
    /\ proc' =
        [q \in Procs |->
            IF q = p
            THEN [np EXCEPT !.dirty = @ \/ nfs # fs, !.flt = @ \/ fault]
            ELSE [proc[q] EXCEPT
                    !.solo = IF starting THEN FALSE ELSE @,
                    !.seen = IF ev.kind \in {"install", "unlink"} /\ proc[q].op = "load"
                                /\ InCall(proc[q])
                                /\ SafeId(proc[q].user_id) # <<>>
                                /\ TokenPath(proc[q].user_id) = ev.path
                             THEN @ \cup {ev.val} ELSE @]]
    /\ fs' = Collect(nfs, proc')
    /\ faults' = IF fault THEN faults - 1 ELSE faults
    /\ hist' =
        IF ev.kind = "none" THEN hist
        ELSE IF ev.kind = "saving" THEN [hist EXCEPT !.saved[ev.path] = @ \cup {ev.val}]
        ELSE [hist EXCEPT !.committed[ev.path] = ev.val,
                          !.deleted[ev.path] = @ \/ ev.kind = "unlink",
                          !.own[proc[p].user_id] = ev.val]

\* the environment may fail a system call while it has faults left
FaultChoice == IF faults > 0 THEN {FALSE, TRUE} ELSE {FALSE}

\* the operation (or, inside get_credentials, the whole call) is over
Done(pr, out) ==
    [pr EXCEPT !.pc = "done", !.out = out, !.caller = "top", !.path = NoPath,
               !.fd = 0, !.off = 0, !.lk = "none", !.ret = Absent, !.creds = NoCreds]
Returned(val) == [NoOut EXCEPT !.kind = "return", !.val = val]
ReturnedCreds(creds) == [NoOut EXCEPT !.kind = "return", !.creds = creds]
Raised(exc) == [NoOut EXCEPT !.kind = "raise", !.exc = exc]

\* a store operation returns val to whoever called it
StoreReturn(pr, val) ==
    IF pr.caller = "top" THEN Done(pr, Returned(val))
    ELSE IF pr.caller = "gc_load"
    THEN [pr EXCEPT !.pc = "gc_decide", !.ret = val, !.path = NoPath, !.fd = 0,
                    !.off = 0, !.lk = "none"]
    ELSE Done(pr, ReturnedCreds(pr.creds))

\* (a failure that is logged and not raised)
StoreRaise_Swallowed(pr, exc) == StoreReturn(pr, Absent)

\* a store operation raises exc; get_credentials has no handler for it
StoreRaise(pr, exc) == Done(pr, Raised(exc))

(* --------------------------- FileTokenStore ---------------------------- *)

\* load, lines 52-55: _token_path, then path.exists()
LoadExists(p) ==
    LET pr == proc[p] IN
    /\ pr.pc = "load_exists"
    /\ IF SafeId(pr.user_id) = <<>>
       THEN Commit(p, StoreRaise(pr, "ValueError"), fs, FALSE, NoEvent, FALSE)
       ELSE IF ~Exists(fs, TokenPath(pr.user_id))
       THEN Commit(p, StoreReturn(pr, Absent), fs, FALSE, NoEvent, FALSE)
       ELSE Commit(p, [pr EXCEPT !.pc = "load_open", !.path = TokenPath(pr.user_id)],
                   fs, FALSE, NoEvent, FALSE)

\* load, line 57: path.open("r"); an OSError is caught and None returned
LoadOpen(p) ==
    LET pr == proc[p] IN
    /\ pr.pc = "load_open"
    /\ \E fault \in FaultChoice :
        IF fault \/ ~Exists(fs, pr.path)
        THEN Commit(p, StoreReturn(pr, Absent), fs, fault, NoEvent, FALSE)
        ELSE Commit(p, [pr EXCEPT !.pc = "load_flock", !.fd = fs.names[pr.path]],
                    fs, FALSE, NoEvent, FALSE)

\* load, line 58: flock(fh, LOCK_SH) waits while another holds LOCK_EX
LoadFlock(p) ==
    LET pr == proc[p] IN
    /\ pr.pc = "load_flock"
    /\ \A q \in Procs \ {p} : ~(proc[q].fd = pr.fd /\ proc[q].lk = "EX")
    /\ Commit(p, [pr EXCEPT !.pc = "load_read", !.lk = "SH"], fs, FALSE, NoEvent, FALSE)

\* fh.read() of a file opened in text mode decodes the bytes; "BAD" is a
\* byte that is not UTF-8
Decodable(content) == \A i \in 1..Len(content) : content[i] # "BAD"

\* load, lines 59-64: json.load reads the file and parses it, the with block
\* closes it; a JSONDecodeError is caught and None returned, a
\* UnicodeDecodeError is neither a JSONDecodeError nor an OSError
LoadRead(p) ==
    LET pr == proc[p]
        parsed == json_load(fs.inodes[pr.fd].content)
    IN
    /\ pr.pc = "load_read"
    /\ IF ~Decodable(fs.inodes[pr.fd].content)
       THEN Commit(p, StoreRaise(pr, "UnicodeDecodeError"), fs, FALSE, NoEvent, FALSE)
       ELSE Commit(p, StoreReturn(pr, IF parsed.ok THEN parsed.d ELSE Absent),
                   fs, FALSE, NoEvent, FALSE)

\* (a save that removes the old record before it writes the new one)
SaveMkdir_RemovesOld(p) ==
    LET pr == proc[p]
        made == [fs EXCEPT !.dir = TRUE]
    IN
    /\ pr.pc = "save_mkdir"
    /\ \E fault \in FaultChoice :
        IF fault THEN Commit(p, StoreRaise(pr, "OSError"), fs, TRUE, NoEvent, FALSE)
        ELSE IF SafeId(pr.user_id) = <<>>
        THEN Commit(p, StoreRaise(pr, "ValueError"), made, FALSE, NoEvent, FALSE)
        ELSE Commit(p, [pr EXCEPT !.pc = "save_open", !.path = TokenPath(pr.user_id)],
                    [made EXCEPT !.names[TokenPath(pr.user_id)] = 0],
                    FALSE, NoEvent, FALSE)

\* save, lines 67-68: mkdir(parents, exist_ok), then _token_path
SaveMkdir(p) ==
    LET pr == proc[p]
        made == [fs EXCEPT !.dir = TRUE]
    IN
    /\ pr.pc = "save_mkdir"
    /\ \E fault \in FaultChoice :
        IF fault THEN Commit(p, StoreRaise(pr, "OSError"), fs, TRUE, NoEvent, FALSE)
        ELSE IF SafeId(pr.user_id) = <<>>
        THEN Commit(p, StoreRaise(pr, "ValueError"), made, FALSE, NoEvent, FALSE)
        ELSE Commit(p, [pr EXCEPT !.pc = "save_open", !.path = TokenPath(pr.user_id)],
                    made, FALSE, NoEvent, FALSE)

\* save, line 71: tmp.open("w") creates the temporary file or truncates the
\* one that is there
SaveOpen(p) ==
    LET pr == proc[p]
        tmp == TmpPath(pr.path)
        old == fs.names[tmp]
        ino == IF old = 0 THEN FreeInode(fs) ELSE old
        opened ==
            [fs EXCEPT !.names[tmp] = ino,
                       !.inodes[ino] =
                           IF old = 0 THEN [content |-> <<>>, mode |-> CreateMode]
                           ELSE [@ EXCEPT !.content = <<>>]]
    IN
    /\ pr.pc = "save_open"
    /\ \E fault \in FaultChoice :
        IF fault THEN Commit(p, StoreRaise(pr, "OSError"), fs, TRUE, NoEvent, FALSE)
        ELSE Commit(p, [pr EXCEPT !.pc = "save_flock", !.fd = ino, !.off = 0],
                    opened, FALSE, NoEvent, FALSE)

\* save, line 72: flock(fh, LOCK_EX) waits while another holds any lock
SaveFlock(p) ==
    LET pr == proc[p] IN
    /\ pr.pc = "save_flock"
    /\ \A q \in Procs \ {p} : ~(proc[q].fd = pr.fd /\ proc[q].lk # "none")
    /\ Commit(p, [pr EXCEPT !.pc = "save_write", !.lk = "EX"], fs, FALSE, NoEvent, FALSE)

\* (a save that loses what is still buffered when the file is closed)
SaveWrite_NoFlush(p) ==
    LET pr == proc[p]
        text == json_dump(pr.data)
        chunk == SubSeq(text, 1, IF Len(text) < BufSize THEN Len(text) ELSE BufSize)
        written == [fs EXCEPT !.inodes[pr.fd].content = Overlay(@, 0, chunk)]
    IN
    /\ pr.pc = "save_write"
    /\ Commit(p, [pr EXCEPT !.pc = "save_chmod", !.fd = 0, !.off = 0, !.lk = "none"],
              written, FALSE, NoEvent, FALSE)

\* save, line 73 and the end of the with block: json.dump fills the buffer,
\* which is written out a buffer at a time, the rest when the file is closed
SaveWrite(p) ==
    LET pr == proc[p]
        text == json_dump(pr.data)
        rest == SubSeq(text, pr.off + 1, Len(text))
        last == Len(rest) <= BufSize
        chunk == IF last THEN rest ELSE SubSeq(rest, 1, BufSize)
        written == [fs EXCEPT !.inodes[pr.fd].content = Overlay(@, pr.off, chunk)]
    IN
    /\ pr.pc = "save_write"
    /\ \E fault \in FaultChoice :
        IF fault THEN Commit(p, StoreRaise(pr, "OSError"), fs, TRUE, NoEvent, FALSE)
        ELSE IF last
        THEN Commit(p, [pr EXCEPT !.pc = "save_chmod", !.fd = 0, !.off = 0, !.lk = "none"],
                    written, FALSE, NoEvent, FALSE)
        ELSE Commit(p, [pr EXCEPT !.off = @ + BufSize], written, FALSE, NoEvent, FALSE)

\* save, line 74: tmp.chmod(0o600), by path
SaveChmod(p) ==
    LET pr == proc[p]
        tmp == TmpPath(pr.path)
    IN
    /\ pr.pc = "save_chmod"
    /\ \E fault \in FaultChoice :
        IF fault \/ fs.names[tmp] = 0
        THEN Commit(p, StoreRaise(pr, "OSError"), fs, fault, NoEvent, FALSE)
        ELSE Commit(p, [pr EXCEPT !.pc = "save_replace"],
                    [fs EXCEPT !.inodes[fs.names[tmp]].mode = OwnerOnly],
                    FALSE, NoEvent, FALSE)

\* (a save that copies the temporary file to the record path)
SaveReplace_Copy(p) ==
    LET pr == proc[p]
        tmp == TmpPath(pr.path)
    IN
    /\ pr.pc = "save_replace"
    /\ \E fault \in FaultChoice :
        IF fault \/ fs.names[tmp] = 0
        THEN Commit(p, StoreRaise(pr, "OSError"), fs, fault, NoEvent, FALSE)
        ELSE Commit(p, StoreReturn(pr, Absent),
                    [fs EXCEPT !.names[pr.path] = fs.names[tmp]],
                    FALSE, Installed(pr.path, pr.data), FALSE)

\* save, lines 75-79: tmp.replace(path); an OSError is logged and raised again
SaveReplace(p) ==
    LET pr == proc[p]
        tmp == TmpPath(pr.path)
    IN
    /\ pr.pc = "save_replace"
    /\ \E fault \in FaultChoice :
        IF fault \/ fs.names[tmp] = 0
        THEN Commit(p, StoreRaise(pr, "OSError"), fs, fault, NoEvent, FALSE)
        ELSE Commit(p, StoreReturn(pr, Absent),
                    [fs EXCEPT !.names =
                        [x \in AllPaths |-> IF x = pr.path THEN fs.names[tmp]
                                            ELSE IF x = tmp THEN 0 ELSE @[x]]],
                    FALSE, Installed(pr.path, pr.data), FALSE)

\* (a delete that does not look before it unlinks)
DeleteExists_NoCheck(p) ==
    LET pr == proc[p] IN
    /\ pr.pc = "delete_exists"
    /\ IF SafeId(pr.user_id) = <<>>
       THEN Commit(p, StoreRaise(pr, "ValueError"), fs, FALSE, NoEvent, FALSE)
       ELSE Commit(p, [pr EXCEPT !.pc = "delete_unlink", !.path = TokenPath(pr.user_id)],
                   fs, FALSE, NoEvent, FALSE)

\* delete, lines 82-83: _token_path, then path.exists()
DeleteExists(p) ==
    LET pr == proc[p] IN
    /\ pr.pc = "delete_exists"
    /\ IF SafeId(pr.user_id) = <<>>
       THEN Commit(p, StoreRaise(pr, "ValueError"), fs, FALSE, NoEvent, FALSE)
       ELSE IF ~Exists(fs, TokenPath(pr.user_id))
       THEN Commit(p, StoreReturn(pr, Absent), fs, FALSE, NoEvent, FALSE)
       ELSE Commit(p, [pr EXCEPT !.pc = "delete_unlink", !.path = TokenPath(pr.user_id)],
                   fs, FALSE, NoEvent, FALSE)

\* delete, line 84: path.unlink()
DeleteUnlink(p) ==
    LET pr == proc[p] IN
    /\ pr.pc = "delete_unlink"
    /\ IF fs.names[pr.path] = 0
       THEN Commit(p, StoreRaise(pr, "OSError"), fs, FALSE, NoEvent, FALSE)
       ELSE Commit(p, StoreReturn(pr, Absent), [fs EXCEPT !.names[pr.path] = 0],
                   FALSE, Unlinked(pr.path), FALSE)

(* ----------------------- calls of the token store ---------------------- *)

\* the dicts callers save: of different lengths, one longer than a buffer
SaveData ==
    { <<>>,
      <<Item("token", Str(<<"x">>))>>,
      <<Item("token", Str(<<"y", "y">>)), Item("refresh_token", None)>> }

\* the dicts one caller saves, one after the other: any keys, null, strings
\* and lists among the values
AnyData ==
    { <<>>,
      <<Item("token", None)>>,
      <<Item("token", Str(<<"x">>))>>,
      <<Item("token", Str(<<>>)), Item("scopes", List(<<>>))>>,
      <<Item("token", Str(<<"y", "y">>)), Item("refresh_token", None)>>,
      <<Item("refresh_token", Str(<<"x">>)), Item("token", Str(<<"x">>))>>,
      <<Item("token", Str(<<"x">>)), Item("refresh_token", Str(<<"y">>)),
        Item("scopes", List(<<<<"x">>, <<"y", "y">>>>))>> }

\* a lone caller runs longer sequences of operations
SeqCalls == MaxCalls + 2

CanCall(p, limit) == ~InCall(proc[p]) /\ proc[p].calls < limit
Quiet(p) == \A q \in Procs \ {p} : ~InCall(proc[q])

Call(p, op, pc, user_id, data, headless) ==
    [Idle EXCEPT !.pc = pc, !.op = op, !.user_id = user_id, !.data = data,
                 !.headless = headless, !.calls = proc[p].calls + 1,
                 !.solo = Quiet(p),
                 !.prev = IF op = "load"
                          THEN [op |-> proc[p].op, user_id |-> proc[p].user_id,
                                trace |-> proc[p].trace, kind |-> proc[p].out.kind,
                                issued |-> proc[p].issued]
                          ELSE NoPrev,
                 !.seen = IF op = "load" /\ SafeId(user_id) # <<>>
                          THEN {hist.committed[TokenPath(user_id)]} ELSE {}]

\* load(user_id), save(user_id, data), delete(user_id) with the user id
\* drawn from ids
LoadAs(p, limit, ids) ==
    /\ CanCall(p, limit)
    /\ \E u \in ids :
        Commit(p, Call(p, "load", "load_exists", u, Absent, FALSE),
               fs, FALSE, NoEvent, TRUE)

SaveAs(p, limit, ids, dicts) ==
    /\ CanCall(p, limit)
    /\ \E u \in ids, d \in dicts :
        Commit(p, Call(p, "save", "save_mkdir", u, d, FALSE),
               fs, FALSE, Saving(u, d), TRUE)

DeleteAs(p, limit, ids) ==
    /\ CanCall(p, limit)
    /\ \E u \in ids :
        Commit(p, Call(p, "delete", "delete_exists", u, Absent, FALSE),
               fs, FALSE, NoEvent, TRUE)

LoadCall(p, limit) == LoadAs(p, limit, UserIds)
SaveCall(p, limit, dicts) == SaveAs(p, limit, UserIds, dicts)
DeleteCall(p, limit) == DeleteAs(p, limit, UserIds)

LoadStep(p) == LoadExists(p) \/ LoadOpen(p) \/ LoadFlock(p) \/ LoadRead(p)
SaveStep(p) ==
    \/ SaveMkdir(p) \/ SaveOpen(p) \/ SaveFlock(p)
    \/ SaveWrite(p) \/ SaveChmod(p) \/ SaveReplace(p)
DeleteStep(p) == DeleteExists(p) \/ DeleteUnlink(p)

(* --------------------------- specifications ---------------------------- *)

\* nothing stored yet, nobody calling; n system calls may fail
Start(n) ==
    /\ fs = [dir |-> FALSE, names |-> [x \in AllPaths |-> 0],
             inodes |-> [i \in Inodes |-> NoInode]]
    /\ proc = [p \in Procs |-> Idle]
    /\ faults = n
    /\ hist = [committed |-> [x \in RecPaths |-> Absent],
               deleted |-> [x \in RecPaths |-> FALSE],
               saved |-> [x \in RecPaths |-> {}],
               own |-> [u \in ValidIds |-> Absent],
               lapsed |-> {}]

\* the token store under concurrent callers
Init == Start(MaxFaults)
\* a storage that never fails
InitReliable == Start(0)

StoreNext ==
    \E p \in Procs :
        \/ LoadCall(p, MaxCalls) \/ SaveCall(p, MaxCalls, SaveData)
        \/ DeleteCall(p, MaxCalls)
        \/ LoadStep(p) \/ SaveStep(p) \/ DeleteStep(p)
Spec == Init /\ [][StoreNext]_vars

\* one caller, one operation after the other
SeqNext ==
    \/ LoadCall(1, SeqCalls) \/ SaveCall(1, SeqCalls, AnyData) \/ DeleteCall(1, SeqCalls)
    \/ LoadStep(1) \/ SaveStep(1) \/ DeleteStep(1)
SpecSeq == Init /\ [][SeqNext]_vars

\* one writer and one concurrent reader
RWNext ==
    \/ SaveCall(1, MaxCalls, SaveData) \/ DeleteCall(1, MaxCalls)
    \/ SaveStep(1) \/ DeleteStep(1)
    \/ LoadCall(2, MaxCalls) \/ LoadStep(2)
SpecRW == Init /\ [][RWNext]_vars

\* one caller acting for several users, on a storage that never fails
IdsNext ==
    \/ LoadAs(1, MaxCalls + 1, ManyIds) \/ SaveAs(1, MaxCalls + 1, ManyIds, SaveData)
    \/ DeleteAs(1, MaxCalls + 1, ManyIds)
    \/ LoadStep(1) \/ SaveStep(1) \/ DeleteStep(1)
SpecIds == InitReliable /\ [][IdsNext]_vars

\* what a record file may hold after something else than save wrote it:
\* nothing, text that is not JSON, a cut-off record, bytes that are no text
Garbage == { <<>>, <<"x">>, <<"{", "token">>, <<"{", "BAD", "}">> }

\* between two calls, a record file is overwritten from outside the store
Corrupt ==
    /\ \A q \in Procs : ~InCall(proc[q])
    /\ \E x \in RecPaths, g \in Garbage :
        /\ Exists(fs, x)
        /\ fs' = [fs EXCEPT !.inodes[fs.names[x]].content = g]
        /\ hist' = [hist EXCEPT !.committed[x] = Absent]
    /\ UNCHANGED <<proc, faults>>

\* one caller, and record files that get corrupted
CorruptNext ==
    \/ LoadCall(1, SeqCalls) \/ SaveCall(1, SeqCalls, SaveData)
    \/ LoadStep(1) \/ SaveStep(1)
    \/ Corrupt
SpecCorrupt == Init /\ [][CorruptNext]_vars

(* --------------------------- get_credentials --------------------------- *)

\* the live configuration (config.py, Config)
Config ==
    [client_id |-> Str(<<"c">>), client_secret |-> Str(<<"k">>),
     scopes |-> List(<<<<"s">>>>)]
DefaultTokenUri == Str(<<"u">>)

\* Python's truth value of a string, a list or None
TruthyVal(v) == v.t # "null" /\ (IF v.t = "str" THEN v.s[1] # <<>> ELSE v.s # <<>>)

\* (a record written without the access token)
credentials_to_dict_NoToken(creds) ==
    << Item("refresh_token", creds.refresh_token),
       Item("token_uri", creds.token_uri),
       Item("client_id", creds.client_id),
       Item("scopes", IF TruthyVal(creds.scopes) THEN creds.scopes ELSE List(<<>>)) >>

\* (a record written with the client secret)
credentials_to_dict_WithSecret(creds) ==
    << Item("token", creds.token),
       Item("refresh_token", creds.refresh_token),
       Item("token_uri", creds.token_uri),
       Item("client_id", creds.client_id),
       Item("client_secret", creds.client_secret),
       Item("scopes", IF TruthyVal(creds.scopes) THEN creds.scopes ELSE List(<<>>)) >>

\* _credentials_to_dict: the client secret is left out
credentials_to_dict(creds) ==
    << Item("token", creds.token),
       Item("refresh_token", creds.refresh_token),
       Item("token_uri", creds.token_uri),
       Item("client_id", creds.client_id),
       Item("scopes", IF TruthyVal(creds.scopes) THEN creds.scopes ELSE List(<<>>)) >>

\* _credentials_from_dict: client id and secret come from the configuration.
\* valid and expired are what the Credentials object answers when asked.
credentials_from_dict(data, config, valid, expired) ==
    [some |-> TRUE,
     token |-> Get(data, "token"),
     refresh_token |-> Get(data, "refresh_token"),
     token_uri |-> IF HasKey(data, "token_uri") THEN Get(data, "token_uri")
                   ELSE DefaultTokenUri,
     client_id |-> config.client_id,
     client_secret |-> config.client_secret,
     scopes |-> Get(data, "scopes"),
     valid |-> valid, expired |-> expired]

\* the answers a Credentials object can give: valid means a token that is
\* not expired
CredFlags(data) ==
    {f \in [valid : BOOLEAN, expired : BOOLEAN] :
        f.valid => (~f.expired /\ Get(data, "token") # None)}

\* what the authorization server hands out
RefreshedTokens == {Str(<<"n">>)}
GrantedCreds ==
    {[some |-> TRUE, token |-> Str(<<"g">>), refresh_token |-> r,
      token_uri |-> DefaultTokenUri, client_id |-> Config.client_id,
      client_secret |-> Config.client_secret, scopes |-> Config.scopes,
      valid |-> TRUE, expired |-> FALSE] : r \in {None, Str(<<"r">>)}}

Note(pr, event) == [pr EXCEPT !.trace = Append(@, event)]

\* (the browser flow in either mode)
NoUsableCredential_AlwaysGrants(pr) ==
    Note([pr EXCEPT !.pc = "gc_grant", !.creds = NoCreds], "grant")

\* lines 95-98 and the start of the browser flow: step 4 of the docstring
NoUsableCredential(pr) ==
    IF pr.headless THEN Done(pr, Raised("CalendarAuthError"))
    ELSE Note([pr EXCEPT !.pc = "gc_grant", !.creds = NoCreds], "grant")

\* token_store.save(user_id, _credentials_to_dict(creds)), lines 88 and 120
CallSave(pr, creds) ==
    Note([pr EXCEPT !.pc = "save_mkdir", !.caller = "gc_save", !.creds = creds,
                    !.data = credentials_to_dict(creds)], "save")

\* (a cache hit that writes the record back)
CacheHit_SavesAgain(pr, creds) == CallSave(Note(pr, "cached"), creds)

\* lines 80-82: the cached credential is returned as it is
CacheHit(pr, creds) == Done(Note(pr, "cached"), ReturnedCreds(creds))

\* what a Credentials object built by _credentials_from_dict answers: no
\* expiry is stored in the record (lines 24-31) and none is passed to the
\* constructor (lines 35-42), and a credential without expiry is never
\* expired; it is valid when it has a token
StoredFlags(data) == {[valid |-> Get(data, "token") # None, expired |-> FALSE]}

\* lines 74-98: the loaded token data decides between the cached credential,
\* a refresh, and step 4; flags are the answers the credential object
\* can give. The caller notes whether the stored access token had passed its
\* expiry time at this moment.
GcDecideBy(p, flags) ==
    LET pr == [proc[p] EXCEPT !.stale = Truthy(proc[p].ret)
                                        /\ Get(proc[p].ret, "token") \in hist.lapsed] IN
    /\ pr.pc = "gc_decide"
    /\ IF ~Truthy(pr.ret)
       THEN Commit(p, NoUsableCredential(Note(pr, "no_token")), fs, FALSE, NoEvent, FALSE)
       ELSE \E f \in flags :
            LET creds == credentials_from_dict(pr.ret, Config, f.valid, f.expired) IN
            IF creds.valid
            THEN Commit(p, CacheHit(pr, creds), fs, FALSE, NoEvent, FALSE)
            ELSE IF creds.expired /\ TruthyVal(creds.refresh_token)
            THEN Commit(p, Note([pr EXCEPT !.pc = "gc_refresh", !.creds = creds],
                                "refresh"),
                        fs, FALSE, NoEvent, FALSE)
            ELSE Commit(p, NoUsableCredential(Note(pr, "unusable")),
                        fs, FALSE, NoEvent, FALSE)

\* the credential object answers as the tests make it answer
GcDecide(p) == GcDecideBy(p, CredFlags(proc[p].ret))
\* the credential object answers as _credentials_from_dict builds it
GcDecideStored(p) == GcDecideBy(p, StoredFlags(proc[p].ret))

\* lines 85-93: creds.refresh(Request()) answers; only RefreshError is caught
GcRefresh(p) ==
    LET pr == proc[p] IN
    /\ pr.pc = "gc_refresh"
    /\ \/ \E tok \in RefreshedTokens :
            LET creds == [pr.creds EXCEPT !.token = tok, !.valid = TRUE,
                                          !.expired = FALSE]
            IN  Commit(p, CallSave([Note(pr, "refresh_ok") EXCEPT !.issued = tok], creds),
                       fs, FALSE, Saving(pr.user_id, credentials_to_dict(creds)), FALSE)
       \/ Commit(p, NoUsableCredential(Note(pr, "refresh_rejected")),
                 fs, FALSE, NoEvent, FALSE)
       \/ Commit(p, Done(Note(pr, "refresh_error"), Raised("TransportError")),
                 fs, FALSE, NoEvent, FALSE)

\* (a browser flow that returns the credential without storing it)
GcGrant_NoSave(p) ==
    LET pr == proc[p] IN
    /\ pr.pc = "gc_grant"
    /\ \/ \E creds \in GrantedCreds :
            Commit(p, Done([Note(pr, "grant_ok") EXCEPT !.issued = creds.token],
                           ReturnedCreds(creds)),
                   fs, FALSE, NoEvent, FALSE)
       \/ Commit(p, Done(Note(pr, "grant_failed"), Raised("CalendarAuthError")),
                 fs, FALSE, NoEvent, FALSE)

\* (a browser flow that stores what it has when it fails)
GcGrant_SavesPartial(p) ==
    LET pr == proc[p] IN
    /\ pr.pc = "gc_grant"
    /\ \/ \E creds \in GrantedCreds :
            Commit(p, CallSave([Note(pr, "grant_ok") EXCEPT !.issued = creds.token], creds),
                   fs, FALSE, Saving(pr.user_id, credentials_to_dict(creds)), FALSE)
       \/ \E creds \in GrantedCreds :
            Commit(p, CallSave(Note(pr, "grant_failed"), [creds EXCEPT !.token = None]),
                   fs, FALSE, NoEvent, FALSE)

\* lines 111-122: the browser flow ends; any failure is a CalendarAuthError
GcGrant(p) ==
    LET pr == proc[p] IN
    /\ pr.pc = "gc_grant"
    /\ \/ \E creds \in GrantedCreds :
            Commit(p, CallSave([Note(pr, "grant_ok") EXCEPT !.issued = creds.token], creds),
                   fs, FALSE, Saving(pr.user_id, credentials_to_dict(creds)), FALSE)
       \/ Commit(p, Done(Note(pr, "grant_failed"), Raised("CalendarAuthError")),
                 fs, FALSE, NoEvent, FALSE)

\* get_credentials(user_id, config, token_store, headless=...) begins with
\* token_store.load(user_id), line 74
GetCredentialsCall(p, limit) ==
    /\ CanCall(p, limit)
    /\ \E u \in UserIds, headless \in BOOLEAN :
        Commit(p, [Call(p, "get_credentials", "load_exists", u, Absent, headless)
                      EXCEPT !.caller = "gc_load"],
               fs, FALSE, NoEvent, TRUE)

GcStep(p) == GcDecide(p) \/ GcRefresh(p) \/ GcGrant(p)

\* concurrent callers of get_credentials
AuthNext ==
    \E p \in Procs :
        \/ GetCredentialsCall(p, MaxCalls)
        \/ GcStep(p) \/ LoadStep(p) \/ SaveStep(p)
\* ... on a storage that never fails
SpecAuth == InitReliable /\ [][AuthNext]_vars

\* one caller: get_credentials and loads, one after the other
AuthSeqNext ==
    \/ GetCredentialsCall(1, SeqCalls) \/ LoadCall(1, SeqCalls)
    \/ GcStep(1) \/ LoadStep(1) \/ SaveStep(1)
SpecAuthSeq == Init /\ [][AuthSeqNext]_vars

\* a record left by an earlier run under another client id
StoredBefore ==
    { << Item("token", Str(<<"x">>)), Item("refresh_token", Str(<<"r">>)),
         Item("client_id", Str(<<"z">>)) >> }

\* one caller of get_credentials on a store that already holds records
AuthStoredNext ==
    \/ GetCredentialsCall(1, SeqCalls) \/ SaveCall(1, SeqCalls, StoredBefore)
    \/ GcStep(1) \/ LoadStep(1) \/ SaveStep(1)
SpecAuthStored == InitReliable /\ [][AuthStoredNext]_vars

\* time passes: the access token of a stored record passes its expiry time
Lapse ==
    /\ \E x \in RecPaths :
        /\ hist.committed[x] # Absent
        /\ Get(hist.committed[x], "token") \notin hist.lapsed \cup {None}
        /\ hist' = [hist EXCEPT !.lapsed = @ \cup {Get(hist.committed[x], "token")}]
    /\ UNCHANGED <<fs, proc, faults>>

\* get_credentials on records as the program itself stores and rebuilds
\* them, while time passes. The refresh of lines 84-93 is no step here: a
\* rebuilt credential never answers that it is expired.
ExpiryNext ==
    \/ GetCredentialsCall(1, SeqCalls) \/ GcDecideStored(1) \/ GcGrant(1)
    \/ LoadStep(1) \/ SaveStep(1) \/ Lapse
SpecExpiry == InitReliable /\ [][ExpiryNext]_vars

(* ----------------------------- entry points ---------------------------- *)

\* GOOGLE_CLIENT_ID and GOOGLE_CLIENT_SECRET as the process finds them
Envs == [client_id : {<<>>, Config.client_id.s[1]},
         client_secret : {<<>>, Config.client_secret.s[1]}]

\* (a configuration check that looks at the client id only)
load_config_IdOnly(env) ==
    LET missing == IF env.client_id = <<>> THEN <<"GOOGLE_CLIENT_ID">> ELSE <<>>
    IN  [ok |-> missing = <<>>, missing |-> missing]

\* load_config, lines 59-71: ConfigurationError names what is missing
load_config(env) ==
    LET missing ==
            (IF env.client_id = <<>> THEN <<"GOOGLE_CLIENT_ID">> ELSE <<>>)
            \o (IF env.client_secret = <<>> THEN <<"GOOGLE_CLIENT_SECRET">> ELSE <<>>)
    IN  [ok |-> missing = <<>>, missing |-> missing]

\* the user id both entry points pass: "default"
DefaultUser == <<"a">>
\* the headless argument of the entry point's get_credentials call: neither
\* main (server.py:55) nor auth_main (server.py:95) passes one, so it is the
\* default of the parameter, False
EntryHeadless(entry) == FALSE

\* main() or auth_main() starts in a fresh process
EntryStart(p, limit) ==
    /\ CanCall(p, limit)
    /\ proc[p].stage # "auth"
    /\ \E entry \in {"main", "auth_main"}, env \in Envs :
        Commit(p, [Idle EXCEPT !.pc = "load_config", !.op = "entry", !.entry = entry,
                               !.env = env, !.stage = "config",
                               !.calls = proc[p].calls + 1, !.solo = Quiet(p)],
               fs, FALSE, NoEvent, TRUE)

\* server.py lines 46-55 and 86-95: load_config; a ConfigurationError is
\* printed and the process exits with status 1; otherwise the token store
\* is set up and get_credentials("default", config, token_store) is called
EntryLoadConfig(p) ==
    LET pr == proc[p] IN
    /\ pr.pc = "load_config"
    /\ IF ~load_config(pr.env).ok
       THEN Commit(p, [pr EXCEPT !.pc = "done", !.stage = "exit", !.status = 1,
                                 !.stderr = <<"Configuration error">>],
                   fs, FALSE, NoEvent, FALSE)
       ELSE Commit(p, [Call(p, "get_credentials", "load_exists", DefaultUser, Absent,
                            EntryHeadless(pr.entry))
                          EXCEPT !.caller = "gc_load", !.entry = pr.entry,
                                 !.env = pr.env, !.stage = "auth",
                                 !.calls = pr.calls, !.solo = pr.solo],
                   fs, FALSE, NoEvent, FALSE)

\* server.py lines 56-73 and 96-99: get_credentials is back. main builds
\* the client, registers the tools and serves; auth_main reports success
\* and exits 0; both print a CalendarAuthError and exit 1; any other
\* exception is not caught and ends the process with a traceback
EntryAfterAuth(p) ==
    LET pr == proc[p] IN
    /\ pr.entry # "none" /\ pr.pc = "done" /\ pr.stage = "auth"
    /\ IF pr.out.kind = "return"
       THEN IF pr.entry = "main"
            THEN Commit(p, [pr EXCEPT !.stage = "serving"], fs, FALSE, NoEvent, FALSE)
            ELSE Commit(p, [pr EXCEPT !.stage = "exit", !.status = 0,
                                      !.stderr = <<"Authentication successful">>],
                        fs, FALSE, NoEvent, FALSE)
       ELSE IF pr.out = Raised("CalendarAuthError")
       THEN Commit(p, [pr EXCEPT !.stage = "exit", !.status = 1,
                                 !.stderr = IF pr.entry = "main"
                                            THEN <<"Run authentication first">>
                                            ELSE <<"Authentication error">>],
                   fs, FALSE, NoEvent, FALSE)
       ELSE Commit(p, [pr EXCEPT !.stage = "crash", !.status = 1,
                                 !.stderr = <<"Traceback", pr.out.exc>>],
                   fs, FALSE, NoEvent, FALSE)

\* the two commands, run one after the other over one storage directory
EntryNext ==
    \/ EntryStart(1, SeqCalls) \/ EntryLoadConfig(1) \/ EntryAfterAuth(1)
    \/ GcStep(1) \/ LoadStep(1) \/ SaveStep(1)
SpecEntry == Init /\ [][EntryNext]_vars

(* ------------------------------ the tools ------------------------------ *)

\* not s.strip(): s is empty or white space only
Blank(s) == \A i \in 1..Len(s) : s[i] = " "

RECURSIVE Strip(_)
\* s.strip()
Strip(s) ==
    IF s # <<>> /\ Head(s) = " " THEN Strip(Tail(s))
    ELSE IF s # <<>> /\ s[Len(s)] = " " THEN Strip(SubSeq(s, 1, Len(s) - 1))
    ELSE s

\* s.lower(), a name being one cell
Lower(s) == [i \in 1..Len(s) |-> IF s[i] = "Tomato" THEN "tomato" ELSE s[i]]

VALID_ORDER_BY == {<<"startTime">>, <<"updated">>}

COLOR_NAMES ==
    (<<"tomato">> :> <<"1">>) @@ (<<"flamingo">> :> <<"2">>)
    @@ (<<"tangerine">> :> <<"3">>) @@ (<<"banana">> :> <<"4">>)
    @@ (<<"sage">> :> <<"5">>) @@ (<<"basil">> :> <<"6">>)
    @@ (<<"peacock">> :> <<"7">>) @@ (<<"blueberry">> :> <<"8">>)
    @@ (<<"lavender">> :> <<"9">>) @@ (<<"grape">> :> <<"1", "0">>)
    @@ (<<"graphite">> :> <<"1", "1">>)
VALID_COLOR_IDS == {COLOR_NAMES[n] : n \in DOMAIN COLOR_NAMES}

MAX_REMINDERS == 5
MAX_REMINDER_MINUTES == 40320

\* _resolve_color_id: '1'-'11' or a colour name gives the numeric string,
\* anything else None
resolve_color_id(value) ==
    LET v == Lower(Strip(value))
        resolved == IF v \in DOMAIN COLOR_NAMES THEN COLOR_NAMES[v] ELSE Strip(value)
    IN  IF resolved \notin VALID_COLOR_IDS THEN NoneOpt ELSE Some(resolved)

\* one part of value.split(","), stripped: whether it is all digits, and
\* its number
Part(minutes) == [digit |-> TRUE, minutes |-> minutes]
NotDigits == [digit |-> FALSE, minutes |-> 0]

RECURSIVE ParseParts(_, _)
ParseParts(parts, result) ==
    IF parts = <<>> THEN result
    ELSE LET part == Head(parts)
             r == IF part.digit /\ 0 <= part.minutes /\ part.minutes <= MAX_REMINDER_MINUTES
                  THEN Append(result, [method |-> "popup", minutes |-> part.minutes])
                  ELSE result
         IN  IF Len(r) >= MAX_REMINDERS THEN r ELSE ParseParts(Tail(parts), r)

\* _parse_reminders: '10,30' gives two popup reminders; at most 5 entries
parse_reminders(value) == ParseParts(value, <<>>)

\* _error: json.dumps({"error": msg})
error(msg) == [kind |-> "error", msg |-> msg, count |-> 0]

\* what the calendar API answers: a result, or an HttpError with a status
\* and the body of the response
ApiOutcomes ==
    {NoHttpError}
    \cup [status : {"403", "404"}, detail : {<<"body A">>, <<"body B">>}]

\* str() of the HttpError
HttpErrorStr(exc) ==
    <<"<", "HttpError", " ", exc.status, " when requesting ",
      "https://www.googleapis.com/calendar/v3/calendars/primary/events",
      " returned ", "Forbidden", ". Details: ">> \o exc.detail \o <<">">>

\* sanitize_api_error: "HttpError\s+(\d{3})" is searched in str(exc)
sanitize_api_error(msg) ==
    LET hit(i) == /\ msg[i] = "HttpError" /\ msg[i + 1] = " "
                  /\ msg[i + 2] \in {"403", "404"}
    IN  IF \E i \in 1..(Len(msg) - 2) : hit(i)
        THEN <<"Calendar API error (",
               msg[(CHOOSE i \in 1..(Len(msg) - 2) : hit(i)) + 2], ")">>
        ELSE <<"Calendar API request failed">>

\* a Python call with keyword arguments kw of a function with parameters
\* params: a keyword that is no parameter is a TypeError
Unexpected(params, kw) == DOMAIN kw \ params
TypeError(name, params, kw) ==
    [raise |-> TRUE,
     msg |-> <<name, "() got an unexpected keyword argument ",
               CHOOSE k \in Unexpected(params, kw) :
                   k = "color_id" \/ "color_id" \notin Unexpected(params, kw)>>,
     req |-> NoRequest, prefix |-> <<>>]
Request(req, prefix) == [raise |-> FALSE, msg |-> <<>>, req |-> req, prefix |-> prefix]

\* "s or None"
OrNone(s) == IF s = <<>> THEN NoneOpt ELSE Some(s)
Clamp(max_results) ==
    LET lo == IF max_results < 1 THEN 1 ELSE max_results
    IN  IF lo > 2500 THEN 2500 ELSE lo

\* calendar/events.py list_events, lines 17-53, up to the request
list_events(kw) ==
    LET params == {"calendar_id", "time_min", "time_max", "max_results", "order_by"} IN
    IF Unexpected(params, kw) # {} THEN TypeError("list_events", params, kw)
    ELSE Request([method |-> "list", calendarId |-> kw.calendar_id,
                  maxResults |-> Clamp(kw.max_results), q |-> NoneOpt,
                  orderBy |-> kw.order_by, timeMin |-> kw.time_min,
                  timeMax |-> kw.time_max],
                 <<"Failed to list events: ">>)

\* calendar/events.py search_events, lines 56-81, up to the request
search_events(kw) ==
    LET params == {"query", "calendar_id", "time_min", "time_max", "max_results"} IN
    IF Unexpected(params, kw) # {} THEN TypeError("search_events", params, kw)
    ELSE Request([method |-> "list", calendarId |-> kw.calendar_id,
                  maxResults |-> Clamp(kw.max_results), q |-> Some(kw.query),
                  orderBy |-> <<"startTime">>, timeMin |-> kw.time_min,
                  timeMax |-> kw.time_max],
                 <<"Failed to search events: ">>)

\* calendar/events.py create_event, lines 96-149, up to the request
create_event(kw) ==
    LET params == {"summary", "start", "end", "calendar_id", "description",
                   "location", "attendees", "all_day"}
        optional == {k \in {"description", "location", "attendees"} : kw[k].some}
        body == [k \in {"summary", "start", "end"} \cup optional |->
                    IF k = "summary" THEN Some(kw.summary)
                    ELSE IF k \in {"start", "end"}
                    THEN [some |-> TRUE, v |-> kw[k], date |-> kw.all_day]
                    ELSE kw[k]]
    IN  IF Unexpected(params, kw) # {} THEN TypeError("create_event", params, kw)
        ELSE Request([method |-> "insert", calendarId |-> kw.calendar_id, body |-> body],
                     <<"Failed to create event: ">>)

\* calendar/events.py update_event, lines 152-185, up to the request
update_event(kw) ==
    LET params == {"event_id", "calendar_id", "summary", "start", "end",
                   "description", "location", "attendees"}
        given == {k \in params \ {"event_id", "calendar_id"} : kw[k].some}
        body == [k \in given |-> kw[k]]
    IN  IF Unexpected(params, kw) # {} THEN TypeError("update_event", params, kw)
        ELSE Request([method |-> "patch", calendarId |-> kw.calendar_id,
                      eventId |-> kw.event_id, body |-> body],
                     <<"Failed to update event: ">>)

\* the checks a tool makes before its try block; <<>> when they pass
Validate(name, a) ==
    IF name = "list_events_tool"
    THEN IF a.order_by \notin VALID_ORDER_BY
         THEN <<"order_by must be one of: startTime, updated">> ELSE <<>>
    ELSE IF name = "search_events_tool"
    THEN IF Blank(a.query) THEN <<"query must not be empty">> ELSE <<>>
    ELSE IF name = "create_event_tool"
    THEN IF Blank(a.summary) THEN <<"summary must not be empty">>
         ELSE IF Blank(a.start) \/ Blank(a.end)
         THEN <<"start and end must not be empty">> ELSE <<>>
    ELSE IF Blank(a.event_id) THEN <<"event_id must not be empty">> ELSE <<>>

\* the call of the calendar function in the tool's try block
CalendarCall(name, a) ==
    LET resolved_color == IF a.color_id # <<>> THEN resolve_color_id(a.color_id)
                          ELSE NoneOpt
        parsed_reminders == IF a.reminders # <<>>
                            THEN [some |-> TRUE, v |-> parse_reminders(a.reminders)]
                            ELSE NoneOpt
    IN  IF name = "list_events_tool"
        THEN list_events([calendar_id |-> a.calendar_id, time_min |-> OrNone(a.time_min),
                          time_max |-> OrNone(a.time_max), max_results |-> a.max_results,
                          order_by |-> a.order_by])
        ELSE IF name = "search_events_tool"
        THEN search_events([query |-> a.query, calendar_id |-> a.calendar_id,
                            time_min |-> OrNone(a.time_min),
                            time_max |-> OrNone(a.time_max),
                            max_results |-> a.max_results])
        ELSE IF name = "create_event_tool"
        THEN create_event([summary |-> a.summary, start |-> a.start, end |-> a.end,
                           calendar_id |-> a.calendar_id,
                           description |-> OrNone(a.description),
                           location |-> OrNone(a.location),
                           attendees |-> OrNone(a.attendees), all_day |-> a.all_day,
                           color_id |-> resolved_color, reminders |-> parsed_reminders])
        ELSE update_event([event_id |-> a.event_id, calendar_id |-> a.calendar_id,
                           summary |-> OrNone(a.summary), start |-> OrNone(a.start),
                           end |-> OrNone(a.end), description |-> OrNone(a.description),
                           location |-> OrNone(a.location),
                           attendees |-> OrNone(a.attendees),
                           color_id |-> resolved_color, reminders |-> parsed_reminders])

\* the arguments a client of the server sends
Texts == {<<>>, <<" ">>, <<"x">>}
Colors == {<<>>, <<"1", "1">>, <<" ", "Tomato">>, <<"1", "2">>}
Reminders ==
    {<<>>, <<Part(10), NotDigits, Part(50000)>>,
     <<Part(1), Part(2), Part(3), Part(4), Part(5), Part(6)>>}
ToolArgs(name) ==
    IF name = "list_events_tool"
    THEN {[ToolDefaults EXCEPT !.max_results = m, !.order_by = o] :
            m \in {0, 10, 2501}, o \in {<<"startTime">>, <<"x">>}}
    ELSE IF name = "search_events_tool"
    THEN {[ToolDefaults EXCEPT !.query = q, !.max_results = m] :
            q \in Texts, m \in {0, 10}}
    ELSE IF name = "create_event_tool"
    THEN {[ToolDefaults EXCEPT !.summary = s, !.start = t, !.end = <<"t">>,
                               !.color_id = c, !.reminders = r] :
            s \in Texts, t \in {<<>>, <<"t">>}, c \in Colors, r \in Reminders}
    ELSE {[ToolDefaults EXCEPT !.event_id = e, !.summary = s, !.color_id = c] :
            e \in Texts, s \in {<<>>, <<"x">>}, c \in Colors}
ToolNames ==
    {"list_events_tool", "search_events_tool", "create_event_tool", "update_event_tool"}

\* a client calls a tool
ToolCall(p, limit) ==
    /\ CanCall(p, limit)
    /\ \E name \in ToolNames : \E a \in ToolArgs(name) :
        Commit(p, [Idle EXCEPT !.pc = "tool_validate", !.op = name,
                               !.tool = [NoTool EXCEPT !.args = a],
                               !.calls = proc[p].calls + 1, !.solo = Quiet(p)],
               fs, FALSE, NoEvent, TRUE)

ToolDone(pr, resp) == [pr EXCEPT !.pc = "done", !.tool.resp = resp]

\* the checks before the try block
ToolValidate(p) ==
    LET pr == proc[p]
        msg == Validate(pr.op, pr.tool.args)
    IN  /\ pr.pc = "tool_validate"
        /\ Commit(p, IF msg # <<>> THEN ToolDone(pr, error(msg))
                      ELSE [pr EXCEPT !.pc = "tool_try"],
                  fs, FALSE, NoEvent, FALSE)

\* get_client() and the call of the calendar function, up to the request;
\* a TypeError of the call is caught by "except Exception"
ToolTry(p) ==
    LET pr == proc[p]
        withClient == [pr EXCEPT !.tool.clients = @ + 1]
        call == CalendarCall(pr.op, pr.tool.args)
    IN  /\ pr.pc = "tool_try"
        /\ Commit(p, IF call.raise
                      THEN ToolDone(withClient, error(<<"Unexpected error: ">> \o call.msg))
                      ELSE [withClient EXCEPT !.pc = "tool_api", !.tool.api = call.req],
                  fs, FALSE, NoEvent, FALSE)

\* execute(): the API answers. An HttpError becomes a CalendarApiError
\* whose text is the function's prefix and str(HttpError); the tool
\* returns _error(str(exc))
ToolApi(p) ==
    LET pr == proc[p]
        call == CalendarCall(pr.op, pr.tool.args)
    IN  /\ pr.pc = "tool_api"
        /\ \E answer \in ApiOutcomes :
            Commit(p, IF answer = NoHttpError
                      THEN ToolDone(pr, [kind |-> IF pr.tool.api.method = "list"
                                                  THEN "events" ELSE "event",
                                         msg |-> <<>>, count |-> 1])
                      ELSE ToolDone([pr EXCEPT !.tool.exc = answer],
                                    error(call.prefix \o HttpErrorStr(answer))),
                   fs, FALSE, NoEvent, FALSE)

ToolsNext ==
    \/ ToolCall(1, SeqCalls) \/ ToolValidate(1) \/ ToolTry(1) \/ ToolApi(1)
SpecTools == InitReliable /\ [][ToolsNext]_vars

(* ------------------------ claims: token store -------------------------- *)

FinishedLoad(p) ==
    /\ proc[p].pc = "done" /\ proc[p].op = "load"
    /\ proc[p].out.kind = "return" /\ ~proc[p].flt

\* C7: with one writer, a load that meets no I/O error returns a value the
\* record path held at some moment of the load: the record stored before a
\* concurrent save (absent if none), or the saved record in full.
C7_LoadSeesWholeRecord ==
    \A p \in Procs : FinishedLoad(p) => proc[p].out.val \in proc[p].seen

\* a load that overlapped a save and returned the record that save installed
C7_Witness ==
    \E p \in Procs :
        /\ FinishedLoad(p) /\ ~proc[p].solo
        /\ Cardinality(proc[p].seen) > 1
        /\ proc[p].out.val # Absent
        /\ Len(json_dump(proc[p].out.val)) > BufSize

\* C8: a load made after every concurrent save of the user id has finished
\* (nothing deleted, no I/O error) returns one of the saved records, whole.
C8_ConcurrentSavesLeaveOneRecord ==
    \A p \in Procs :
        (/\ FinishedLoad(p) /\ proc[p].solo /\ faults = MaxFaults
         /\ SafeId(proc[p].user_id) # <<>>
         /\ hist.saved[TokenPath(proc[p].user_id)] # {}
         /\ ~hist.deleted[TokenPath(proc[p].user_id)])
        => proc[p].out.val \in hist.saved[TokenPath(proc[p].user_id)]

\* C10: with one caller and no I/O error, a load returns exactly the dict of
\* the last save that succeeded for the user id, whatever was saved before.
C10_LoadReturnsLastSave ==
    \A p \in Procs :
        (FinishedLoad(p) /\ faults = MaxFaults /\ SafeId(proc[p].user_id) # <<>>
         /\ ~hist.deleted[TokenPath(proc[p].user_id)]
         /\ hist.saved[TokenPath(proc[p].user_id)] # {})
        => proc[p].out.val = hist.committed[TokenPath(proc[p].user_id)]

\* a load that returned a short dict saved over a longer one
C10_Witness ==
    \E p \in Procs :
        /\ FinishedLoad(p) /\ faults = MaxFaults
        /\ proc[p].out.val = <<Item("token", Str(<<"x">>))>>
        /\ \E d \in hist.saved[TokenPath(proc[p].user_id)] :
                Len(json_dump(d)) > Len(json_dump(proc[p].out.val))

DoneOp(p, op) == proc[p].pc = "done" /\ proc[p].op = op
ValidId(p) == SafeId(proc[p].user_id) # <<>>

\* C11: with one caller, a load of user id v returns what was last saved
\* under v itself (absent if nothing was, or if v was deleted since): saves
\* and deletes under any other user id leave it alone.
C11_UsersAreIsolated ==
    \A p \in Procs :
        (FinishedLoad(p) /\ ValidId(p)) => proc[p].out.val = hist.own[proc[p].user_id]

\* C12: a load for a valid user id never raises, and returns absent unless
\* the record file holds a record that was saved, whatever else the file
\* holds.
C12_LoadIsTotal ==
    \A p \in Procs :
        (DoneOp(p, "load") /\ ValidId(p)) =>
            /\ proc[p].out.kind = "return"
            /\ proc[p].out.val \in proc[p].seen \cup {Absent}

\* C13: load, save and delete with a user id whose safe id is empty raise
\* ValueError and leave the storage as it was: no file and no directory is
\* created, changed or removed.
C13_InvalidIdTouchesNothing ==
    \A p \in Procs :
        (/\ proc[p].pc = "done" /\ proc[p].op \in {"load", "save", "delete"}
         /\ ~ValidId(p) /\ ~proc[p].flt) =>
            /\ proc[p].out = Raised("ValueError")
            /\ ~proc[p].dirty

\* a direct child of the storage directory
Inside(path) ==
    /\ path.parent = "store_dir"
    /\ path.name \notin {<<>>, <<".">>, <<".", ".">>}
    /\ \A i \in 1..Len(path.name) : path.name[i] \notin {"/", "NUL"}

\* C14: the record path and the temporary path an operation works on, and
\* every file the store has created, are direct children of the storage
\* directory, whatever the user id holds.
C14_PathsStayInStoreDir ==
    /\ \A p \in Procs :
            proc[p].path # NoPath =>
                Inside(proc[p].path) /\ Inside(TmpPath(proc[p].path))
    /\ \A x \in AllPaths : fs.names[x] # 0 => Inside(x)

\* a record saved under a user id with "..", "/" and a null byte
C14_Witness ==
    \E p \in Procs :
        /\ DoneOp(p, "save") /\ proc[p].out.kind = "return"
        /\ \E i \in 1..Len(proc[p].user_id) : proc[p].user_id[i] = "/"
        /\ \E i \in 1..Len(proc[p].user_id) : proc[p].user_id[i] = "NUL"
        /\ Exists(fs, TokenPath(proc[p].user_id))

\* C15: once a save has returned, the record file of its user id has mode
\* 0600.
C15_SavedFileIsOwnerOnly ==
    \A p \in Procs :
        (/\ DoneOp(p, "save") /\ proc[p].out.kind = "return"
         /\ Exists(fs, TokenPath(proc[p].user_id))) =>
            fs.inodes[fs.names[TokenPath(proc[p].user_id)]].mode = OwnerOnly

\* the step in which caller p's save returns
SaveReturns(p) ==
    /\ proc[p].op = "save" /\ proc[p].pc = "save_replace"
    /\ proc'[p].pc = "done" /\ proc'[p].out.kind = "return"
OtherSaving(p) ==
    \E q \in Procs \ {p} :
        /\ proc'[q].op = "save" /\ InCall(proc'[q])
        /\ SafeId(proc'[q].user_id) = SafeId(proc[p].user_id)

\* C16: when a save returns and no other save of the user id is under way,
\* the temporary file is gone and the record file is there.
C16_NoTemporaryFileLeft ==
    [][\A p \in Procs :
            (SaveReturns(p) /\ ~OtherSaving(p)) =>
                /\ fs'.names[TmpPath(proc[p].path)] = 0
                /\ fs'.names[proc[p].path] # 0]_vars

\* a save has returned and left the record file alone in the directory,
\* while another caller's save of the same user id failed
C16_Witness ==
    \E p \in Procs :
        /\ DoneOp(p, "save") /\ proc[p].out.kind = "return" /\ proc[p].dirty
        /\ \E q \in Procs \ {p} :
                /\ DoneOp(q, "save") /\ proc[q].out.kind = "raise" /\ proc[q].dirty
                /\ proc[q].user_id = proc[p].user_id
        /\ fs.names[TmpPath(TokenPath(proc[p].user_id))] = 0
        /\ fs.names[TokenPath(proc[p].user_id)] # 0

\* C17: with one caller, a delete never fails, whether or not a record is
\* stored, and leaves no record; a load after a delete returns absent.
C17_DeleteIsIdempotent ==
    \A p \in Procs :
        /\ (DoneOp(p, "delete") /\ ValidId(p)) =>
                /\ proc[p].out.kind = "return"
                /\ ~Exists(fs, TokenPath(proc[p].user_id))
        /\ (/\ FinishedLoad(p) /\ proc[p].prev.op = "delete"
            /\ proc[p].prev.user_id = proc[p].user_id) =>
                proc[p].out.val = Absent

\* a delete that found nothing to remove, after a delete that removed the
\* record
C17_Witness ==
    \E p \in Procs :
        /\ DoneOp(p, "delete") /\ ValidId(p) /\ proc[p].out.kind = "return"
        /\ ~proc[p].dirty
        /\ hist.deleted[TokenPath(proc[p].user_id)]
        /\ hist.committed[TokenPath(proc[p].user_id)] = Absent

\* C18: a save in which a system call failed raises; with one caller, a
\* save that returns has put its data at the record path.
C18_SaveFailuresAreRaised ==
    \A p \in Procs :
        DoneOp(p, "save") =>
            /\ proc[p].flt => proc[p].out = Raised("OSError")
            /\ proc[p].out.kind = "return" =>
                    /\ ValidId(p)
                    /\ hist.committed[TokenPath(proc[p].user_id)] = proc[p].data

\* a save that failed after its temporary file was written
C18_Witness ==
    \E p \in Procs :
        /\ DoneOp(p, "save") /\ ValidId(p) /\ proc[p].flt
        /\ proc[p].out = Raised("OSError")
        /\ fs.names[TmpPath(TokenPath(proc[p].user_id))] # 0
        /\ fs.inodes[fs.names[TmpPath(TokenPath(proc[p].user_id))]].content
                = json_dump(proc[p].data)

(* ----------------------- claims: get_credentials ----------------------- *)

GcDone(p) == proc[p].pc = "done" /\ proc[p].op = "get_credentials"
Has(trace, event) == \E i \in 1..Len(trace) : trace[i] = event

\* C1: a call whose refresh was rejected (the stored record was expired and
\* had a refresh token), on a storage that works: headless, it raises
\* CalendarAuthError without a browser flow; interactive, it runs the browser
\* flow and returns the credential granted, if the grant succeeds.
C1_RejectedRefreshFallsBack ==
    \A p \in Procs :
        (GcDone(p) /\ Has(proc[p].trace, "refresh_rejected") /\ ~proc[p].flt) =>
            IF proc[p].headless
            THEN proc[p].out = Raised("CalendarAuthError") /\ ~Has(proc[p].trace, "grant")
            ELSE /\ Has(proc[p].trace, "grant")
                 /\ Has(proc[p].trace, "grant_ok") =>
                        /\ proc[p].out.kind = "return"
                        /\ proc[p].out.creds \in GrantedCreds
                        /\ proc[p].out.creds.token = proc[p].issued

\* an interactive call that returned the granted credential after a rejected
\* refresh
C1_Witness ==
    \E p \in Procs :
        /\ GcDone(p) /\ ~proc[p].headless /\ ~proc[p].flt
        /\ Has(proc[p].trace, "refresh_rejected") /\ Has(proc[p].trace, "grant_ok")
        /\ proc[p].out.kind = "return"

\* C2: a call that finds the stored record valid, in either mode, returns the
\* credential built from that record and has done nothing else: no refresh,
\* no browser flow, no save, no change to the storage directory.
C2_CacheHitTouchesNothing ==
    \A p \in Procs :
        (GcDone(p) /\ Has(proc[p].trace, "cached")) =>
            /\ proc[p].out.kind = "return"
            /\ proc[p].out.creds.valid
            /\ proc[p].out.creds.token =
                    Get(hist.committed[TokenPath(proc[p].user_id)], "token")
            /\ proc[p].trace = <<"cached">>
            /\ ~proc[p].dirty

\* a headless call that returned the stored credential
C2_Witness ==
    \E p \in Procs :
        /\ GcDone(p) /\ proc[p].headless /\ Has(proc[p].trace, "cached")
        /\ proc[p].out.creds.token = Str(<<"g">>)

\* C3: a call whose refresh succeeded, on a storage that works, returns a
\* credential with the new access token, and the caller's next load of the
\* user id returns a record with that token.
C3_RefreshIsReturnedAndStored ==
    \A p \in Procs :
        /\ (GcDone(p) /\ Has(proc[p].trace, "refresh_ok") /\ ~proc[p].flt) =>
                /\ proc[p].out.kind = "return"
                /\ proc[p].issued \in RefreshedTokens
                /\ proc[p].out.creds.token = proc[p].issued
        /\ (/\ FinishedLoad(p) /\ proc[p].prev.op = "get_credentials"
            /\ proc[p].prev.kind = "return" /\ Has(proc[p].prev.trace, "refresh_ok")
            /\ proc[p].prev.user_id = proc[p].user_id) =>
                /\ proc[p].out.val # Absent
                /\ Get(proc[p].out.val, "token") = proc[p].prev.issued

\* a load right after a call that refreshed
C3_Witness ==
    \E p \in Procs :
        /\ FinishedLoad(p) /\ proc[p].prev.op = "get_credentials"
        /\ proc[p].prev.kind = "return" /\ Has(proc[p].prev.trace, "refresh_ok")
        /\ proc[p].prev.user_id = proc[p].user_id
        /\ Get(proc[p].out.val, "token") \in RefreshedTokens

\* C4: a headless call for a valid user id, on a storage that works, never
\* starts the browser flow and ends by returning a credential or raising
\* CalendarAuthError, whatever the refresh answers.
C4_HeadlessReturnsOrAuthError ==
    \A p \in Procs :
        (/\ proc[p].op = "get_credentials" /\ proc[p].headless
         /\ SafeId(proc[p].user_id) # <<>> /\ ~proc[p].flt) =>
            /\ proc[p].pc # "gc_grant"
            /\ ~Has(proc[p].trace, "grant")
            /\ proc[p].pc = "done" =>
                    \/ proc[p].out.kind = "return"
                    \/ proc[p].out = Raised("CalendarAuthError")

\* C5: a call whose refresh failed, for whatever cause, does not raise that
\* failure: headless it raises CalendarAuthError, interactive it goes on to
\* the browser flow.
C5_FailedRefreshAbsorbed ==
    \A p \in Procs :
        (/\ GcDone(p)
         /\ \/ Has(proc[p].trace, "refresh_rejected")
            \/ Has(proc[p].trace, "refresh_error")) =>
            IF proc[p].headless THEN proc[p].out = Raised("CalendarAuthError")
            ELSE Has(proc[p].trace, "grant")

\* C6: every call of get_credentials ends by returning a credential or
\* raising CalendarAuthError.
C6_OnlyAuthErrorsEscape ==
    \A p \in Procs :
        GcDone(p) => \/ proc[p].out.kind = "return"
                     \/ proc[p].out = Raised("CalendarAuthError")

\* C9: at most one refresh of a user id's token is in flight at a time (the
\* claim's case of racing callers refreshing the same expired token).
C9_OneRefreshInFlight ==
    \A p, q \in Procs :
        (/\ p # q
         /\ proc[p].pc = "gc_refresh" /\ proc[q].pc = "gc_refresh"
         /\ SafeId(proc[p].user_id) = SafeId(proc[q].user_id)) => FALSE

\* the characters of a string value
Chars(v) == IF v.t = "str" THEN {v.s[1][i] : i \in 1..Len(v.s[1])} ELSE {}

\* C19: no file the store holds has a client_secret key or the configured
\* secret in it, no record handed to save has the key, and a credential
\* built from a stored record carries the client id and the client secret
\* of the configuration, whatever the record says.
C19_SecretNeverStored ==
    /\ \A i \in Inodes : \A j \in 1..Len(fs.inodes[i].content) :
            fs.inodes[i].content[j] \notin {"client_secret"} \cup Chars(Config.client_secret)
    /\ \A p \in Procs :
            /\ proc[p].op = "get_credentials" => ~HasKey(proc[p].data, "client_secret")
            /\ (/\ GcDone(p) /\ proc[p].out.kind = "return"
                /\ \/ Has(proc[p].trace, "cached")
                   \/ Has(proc[p].trace, "refresh_ok")) =>
                    /\ proc[p].out.creds.client_id = Config.client_id
                    /\ proc[p].out.creds.client_secret = Config.client_secret

\* a refreshed credential was stored and returned, built from a record that
\* named another client id
C19_Witness ==
    \E p \in Procs :
        /\ GcDone(p) /\ proc[p].out.kind = "return"
        /\ Has(proc[p].trace, "refresh_ok")
        /\ Get(hist.committed[TokenPath(proc[p].user_id)], "client_id") = Config.client_id
        /\ Str(<<"z">>) \in
                {Get(d, "client_id") : d \in hist.saved[TokenPath(proc[p].user_id)]}

\* C20: get_credentials writes to the store only after a refresh or a grant
\* has succeeded; a call that raises CalendarAuthError has left the storage
\* exactly as it found it.
C20_FailureWritesNothing ==
    \A p \in Procs :
        proc[p].op = "get_credentials" =>
            /\ (proc[p].dirty \/ Has(proc[p].trace, "save")) =>
                    \/ Has(proc[p].trace, "refresh_ok")
                    \/ Has(proc[p].trace, "grant_ok")
            /\ (proc[p].pc = "done" /\ proc[p].out = Raised("CalendarAuthError")) =>
                    /\ ~proc[p].dirty
                    /\ ~Has(proc[p].trace, "save")

\* a browser flow that failed while a record was stored
C20_Witness ==
    \E p \in Procs :
        /\ GcDone(p) /\ proc[p].out = Raised("CalendarAuthError")
        /\ Has(proc[p].trace, "grant_failed")
        /\ hist.committed[TokenPath(proc[p].user_id)] # Absent

(* ------------------------- claims: entry points ------------------------ *)

Missing(env) == env.client_id = <<>> \/ env.client_secret = <<>>

\* C21: a process started from main or auth_main without client id or
\* without client secret never touches the token store, never refreshes,
\* never starts the browser flow and never serves: it ends with status 1
\* and the configuration error on stderr.
C21_ConfigErrorComesFirst ==
    \A p \in Procs :
        (proc[p].entry # "none" /\ Missing(proc[p].env)) =>
            /\ proc[p].op = "entry"
            /\ proc[p].stage \in {"config", "exit"}
            /\ proc[p].trace = <<>> /\ ~proc[p].dirty
            /\ proc[p].pc = "done" =>
                    /\ proc[p].status = 1
                    /\ proc[p].stderr = <<"Configuration error">>

\* auth_main without a client secret has exited with status 1 although a
\* token is stored
C21_Witness ==
    \E p \in Procs :
        /\ proc[p].entry = "auth_main" /\ proc[p].pc = "done"
        /\ proc[p].env.client_id # <<>> /\ proc[p].env.client_secret = <<>>
        /\ proc[p].status = 1
        /\ hist.committed[TokenPath(DefaultUser)] # Absent

\* C22: main never starts the browser flow; when get_credentials finds
\* nothing to return or refresh, main ends with status 1 and the hint to
\* run the authentication first.
C22_ServePathIsHeadless ==
    \A p \in Procs :
        proc[p].entry = "main" =>
            /\ proc[p].pc # "gc_grant"
            /\ ~Has(proc[p].trace, "grant")
            /\ (proc[p].stage = "exit" /\ proc[p].status = 1 /\ ~Missing(proc[p].env)) =>
                    proc[p].stderr = <<"Run authentication first">>

(* --------------------------- claims: tools ----------------------------- *)

ToolIsDone(p) == proc[p].pc = "done" /\ proc[p].op \in ToolNames

\* a required string is blank, or a parameter is out of range
BadArgs(name, a) ==
    \/ name = "list_events_tool" /\ a.order_by \notin VALID_ORDER_BY
    \/ name \in {"list_events_tool", "search_events_tool"}
            /\ a.max_results \notin 1..2500
    \/ name = "search_events_tool" /\ Blank(a.query)
    \/ name = "create_event_tool" /\ (Blank(a.summary) \/ Blank(a.start) \/ Blank(a.end))
    \/ name = "update_event_tool" /\ Blank(a.event_id)
    \/ name \in {"create_event_tool", "update_event_tool"}
            /\ a.color_id # <<>> /\ ~resolve_color_id(a.color_id).some

\* C23: a tool called with a blank required string or an out-of-range
\* parameter returns an error payload and has called neither get_client
\* nor the calendar API.
C23_ValidationBeforeNetwork ==
    \A p \in Procs :
        (proc[p].op \in ToolNames /\ BadArgs(proc[p].op, proc[p].tool.args)) =>
            /\ proc[p].tool.clients = 0
            /\ proc[p].tool.api = NoRequest
            /\ proc[p].pc = "done" => proc[p].tool.resp.kind = "error"

\* C24: the response to a failed API call is the generic message with the
\* status code, and nothing else of the error.
C24_ApiErrorsAreStatusOnly ==
    \A p \in Procs :
        (ToolIsDone(p) /\ proc[p].tool.exc # NoHttpError) =>
            proc[p].tool.resp =
                error(sanitize_api_error(HttpErrorStr(proc[p].tool.exc)))

\* C25: create_event_tool and update_event_tool with valid required
\* parameters, the API not failing, return the event and have sent one
\* request whose body carries colorId and reminders exactly when color_id
\* and reminders were given.
C25_EventToolsSendColorAndReminders ==
    \A p \in Procs :
        (/\ ToolIsDone(p)
         /\ proc[p].op \in {"create_event_tool", "update_event_tool"}
         /\ Validate(proc[p].op, proc[p].tool.args) = <<>>
         /\ proc[p].tool.exc = NoHttpError) =>
            /\ proc[p].tool.resp.kind = "event"
            /\ proc[p].tool.api.method \in {"insert", "patch"}
            /\ ("colorId" \in DOMAIN proc[p].tool.api.body)
                    <=> proc[p].tool.args.color_id # <<>>
            /\ ("reminders" \in DOMAIN proc[p].tool.api.body)
                    <=> proc[p].tool.args.reminders # <<>>

(* ---------------------- claims: get_credentials, II -------------------- *)

Count(trace, event) == Cardinality({i \in 1..Len(trace) : trace[i] = event})

\* C26: a call of get_credentials saves at most once, and only right after
\* its refresh or its grant has succeeded; a call that returns after a
\* successful refresh or grant has saved exactly once, and the record of
\* the requested user id is the credential it returns.
C26_OneSavePerAcquisition ==
    \A p \in Procs :
        proc[p].op = "get_credentials" =>
            /\ Count(proc[p].trace, "save") <= 1
            /\ \A i \in 1..Len(proc[p].trace) :
                    proc[p].trace[i] = "save" =>
                        i > 1 /\ proc[p].trace[i - 1] \in {"refresh_ok", "grant_ok"}
            /\ (/\ proc[p].pc = "done" /\ proc[p].out.kind = "return"
                /\ (Has(proc[p].trace, "refresh_ok") \/ Has(proc[p].trace, "grant_ok"))) =>
                    /\ Count(proc[p].trace, "save") = 1
                    /\ hist.committed[TokenPath(proc[p].user_id)]
                            = credentials_to_dict(proc[p].out.creds)

\* a rejected refresh followed by a successful grant has returned
C26_Witness ==
    \E p \in Procs :
        /\ GcDone(p) /\ proc[p].out.kind = "return"
        /\ Has(proc[p].trace, "refresh_rejected") /\ Has(proc[p].trace, "grant_ok")
        /\ Count(proc[p].trace, "save") = 1

\* C28: a call returns the stored credential as it is only when its access
\* token has not passed its expiry time; a stored token that has, with a
\* refresh token beside it, is refreshed.
C28_ExpiryIsHonoured ==
    \A p \in Procs :
        (proc[p].op = "get_credentials" /\ proc[p].stale) =>
            /\ ~Has(proc[p].trace, "cached")
            /\ TruthyVal(proc[p].out.creds.refresh_token) => Has(proc[p].trace, "refresh")

(* ---------------------- claims: token store, II ------------------------ *)

\* C27: while a save holds its exclusive lock and is not itself taking a
\* step, the content of the file it has locked does not change: no other
\* save, and no load, gets at the file being written.
C27_LockExcludesOthers ==
    [][\A p \in Procs :
          (/\ proc[p].op = "save" /\ proc[p].lk = "EX"
           /\ proc'[p].lk = "EX" /\ proc'[p].pc = proc[p].pc
           /\ proc'[p].off = proc[p].off /\ proc'[p].fd = proc[p].fd) =>
              fs'.inodes[proc[p].fd].content = fs.inodes[proc[p].fd].content]_vars

\* what the record path of a user id holds
RecordFile(f, user_id) ==
    IF f.names[TokenPath(user_id)] = 0 THEN <<"absent">>
    ELSE f.inodes[f.names[TokenPath(user_id)]].content

\* C29: with one caller, no step of a save changes what the record path
\* holds, except the step with which the save returns; so a save that
\* raises has left the previous record as it was, and a load right after
\* it returns that record.
C29_FailedSaveKeepsRecord ==
    /\ [](\A p \in Procs :
            (/\ FinishedLoad(p) /\ ValidId(p)
             /\ proc[p].prev.op = "save" /\ proc[p].prev.kind = "raise"
             /\ proc[p].prev.user_id = proc[p].user_id) =>
                proc[p].out.val = hist.committed[TokenPath(proc[p].user_id)])
    /\ [][\A p \in Procs :
            (proc[p].op = "save" /\ InCall(proc[p]) /\ ValidId(p)) =>
                \/ /\ RecordFile(fs', proc[p].user_id) = RecordFile(fs, proc[p].user_id)
                   /\ hist'.committed = hist.committed
                \/ proc'[p].pc = "done" /\ proc'[p].out.kind = "return"]_vars

\* a load right after a failed save has returned the record stored before
C29_Witness ==
    \E p \in Procs :
        /\ FinishedLoad(p) /\ ValidId(p)
        /\ proc[p].prev.op = "save" /\ proc[p].prev.kind = "raise"
        /\ proc[p].prev.user_id = proc[p].user_id
        /\ proc[p].out.val # Absent

\* C30: every file of the storage directory that holds token data, the
\* temporary file included, has mode 0600.
C30_TokenDataIsOwnerOnly ==
    \A path \in AllPaths :
        (fs.names[path] # 0 /\ fs.inodes[fs.names[path]].content # <<>>) =>
            fs.inodes[fs.names[path]].mode = OwnerOnly

====
